---------------------------- MODULE Spec2Model ----------------------------
(***************************************************************************)
(* Model of src/config/config.py (parse_configs) of Complex-YOLOv4-Pytorch *)
(* and of the three read-only components its configuration feeds:         *)
(* the BEV grid (toCell / cellCenter), the class registry (idForName /     *)
(* colorForId) and the calibration set (matrices and their inverses).      *)
(*                                                                         *)
(* parse_configs is modelled as a sequence of steps, one per section of    *)
(* the function, so that the order in which the configuration is built is  *)
(* visible.  Once the configuration is returned, downstream callers issue  *)
(* one query at a time against it.                                         *)
(*                                                                         *)
(* Numbers.  Coordinates, boundaries and the discretization are exact      *)
(* rationals [n, d] (d > 0); Python computes them in binary64, whose       *)
(* rounding error (about 1e-16 relative) is far below the half-cell margin *)
(* the grid properties depend on.  Matrix literals are exact decimals      *)
(* [m, e] = m * 10^e, as written in the source.                            *)
(***************************************************************************)
EXTENDS Integers, Sequences, FiniteSets, TLC

VARIABLES
    pc,       \* position inside parse_configs, then "ready" / "raised"
    argv,     \* the command-line flags parse_args() returned
    configs,  \* the edict being populated (a record that grows)
    ret,      \* what the caller of parse_configs received: <<>> or <<configs>>
    folders,  \* directories created by make_folder
    op,       \* the downstream query in progress ("none" when idle)
    src,      \* cellCenter's input: <<>> or <<[grid, row, col]>>
    pt,       \* the point in flight: <<>> or <<[x, y, z]>>
    cells,    \* toCell's answer per grid instance: <<>> (None) or <<row, col>>
    name,     \* idForName's input / the attribute being read
    id,       \* idForName's answer: <<>> (None) or <<id>>
    color,    \* colorForId's answer: <<>> or <<colour triple>>
    err       \* "" / "ok" / the error a query raised

vars == <<pc, argv, configs, ret, folders, op, src, pt, cells, name, id, color, err>>

qvars == <<op, src, pt, cells, name, id, color, err>>

----------------------------------------------------------------------------
(* Exact rational arithmetic (denominators stay positive). *)

Rat(n, d) == [n |-> n, d |-> d]

RInt(k) == Rat(k, 1)

RSub(a, b) == Rat(a.n * b.d - b.n * a.d, a.d * b.d)

RAdd(a, b) == Rat(a.n * b.d + b.n * a.d, a.d * b.d)

RMul(a, b) == Rat(a.n * b.n, a.d * b.d)

\* a / b, b # 0
RDiv(a, b) == IF b.n > 0 THEN Rat(a.n * b.d, a.d * b.n)
                         ELSE Rat(-(a.n * b.d), -(a.d * b.n))

RLe(a, b) == a.n * b.d <= b.n * a.d

RLt(a, b) == a.n * b.d < b.n * a.d

REq(a, b) == a.n * b.d = b.n * a.d

\* floor(a): \div rounds towards minus infinity
RFloor(a) == a.n \div a.d

----------------------------------------------------------------------------
(* Command line: the flags of parse_configs the modelled sections read. *)

\* --saved_fn values tried (the first is the argparse default)
SavedFns == {"complexer_yolo", "exp1"}

\* (the other flags, the device selection and the optional output directories
\* of lines 216-222 play no part in what is modelled below)
ArgSpace == [use_best_checkpoint : BOOLEAN, saved_fn : SavedFns]

\* os.path.join(a, b): no separator is added after a component that already
\* ends with one; the only such component here is working_dir.
EndsWithSep == {"../../"}

PathJoin(a, b) == IF a \in EndsWithSep THEN a \o b ELSE a \o "/" \o b

working_dir == "../../"

\* '{}_best.pth'.format(fn)
BestName(fn) == fn \o "_best.pth"

\* '{}.pth'.format(fn)
LastName(fn) == fn \o ".pth"

----------------------------------------------------------------------------
(* Class registry literals. *)

\* configs.class_list (Python index i is position i + 1 here)
class_list == <<"Car", "Pedestrian", "Cyclist">>

\* mutant: the alias 'Van' filed under the wrong class
CLASS_NAME_TO_ID_VanAsCyclist ==
    ("Car" :> 0) @@ ("Pedestrian" :> 1) @@ ("Cyclist" :> 2) @@
    ("Van" :> 2) @@ ("Person_sitting" :> 1)

\* configs.CLASS_NAME_TO_ID
CLASS_NAME_TO_ID ==
    ("Car" :> 0) @@ ("Pedestrian" :> 1) @@ ("Cyclist" :> 2) @@
    ("Van" :> 0) @@ ("Person_sitting" :> 1)

\* mutant: one colour short of the class list
colors_TwoOnly == << <<0, 255, 255>>, <<0, 0, 255>> >>

\* configs.colors
colors == << <<0, 255, 255>>, <<0, 0, 255>>, <<255, 0, 0>> >>

----------------------------------------------------------------------------
(* BEV grid literals. *)

\* Front side (of vehicle) point-cloud boundary
boundary ==
    [minX |-> RInt(0),   maxX |-> RInt(50),
     minY |-> RInt(-25), maxY |-> RInt(25),
     minZ |-> Rat(-273, 100), maxZ |-> Rat(127, 100)]

\* mutant: the back boundary keeps the front's maxX
boundary_back_MaxXCopied ==
    [minX |-> RInt(-50), maxX |-> RInt(50),
     minY |-> RInt(-25), maxY |-> RInt(25),
     minZ |-> Rat(-273, 100), maxZ |-> Rat(127, 100)]

\* Back side (of vehicle) point-cloud boundary
boundary_back ==
    [minX |-> RInt(-50), maxX |-> RInt(0),
     minY |-> RInt(-25), maxY |-> RInt(25),
     minZ |-> Rat(-273, 100), maxZ |-> Rat(127, 100)]

\* across y axis -25m ~ 25m
BEV_WIDTH == 608

\* across x axis 0m ~ 50m
BEV_HEIGHT == 608

\* mutant: one cell too few in the divisor
DISCRETIZATION_OffByOne ==
    RDiv(RSub(boundary.maxX, boundary.minX), RInt(BEV_HEIGHT - 1))

\* (boundary["maxX"] - boundary["minX"]) / BEV_HEIGHT, Python true division
DISCRETIZATION == RDiv(RSub(boundary.maxX, boundary.minX), RInt(BEV_HEIGHT))

----------------------------------------------------------------------------
(* Calibration literals: decimals m * 10^e exactly as written. *)

Dec(m, e) == [m |-> m, e |-> e]

Z0 == Dec(0, 0)

One == Dec(1, 0)

Tr_velo_to_cam == <<
    <<Dec(749916597, -11), Dec(-999971248, -9), Dec(-865110297, -12), Dec(-671807577, -11)>>,
    <<Dec(118652889, -10), Dec(954520517, -12), Dec(-999910318, -9), Dec(-733152811, -10)>>,
    <<Dec(999882833, -9),  Dec(749141178, -11), Dec(118719929, -10), Dec(-278557062, -9)>>,
    <<Z0, Z0, Z0, One>> >>

R0 == <<
    <<Dec(99992475, -8), Dec(975976, -8),   Dec(-734152, -8),  Z0>>,
    <<Dec(-97913, -7),   Dec(99994262, -8), Dec(-430371, -8),  Z0>>,
    <<Dec(729911, -8),   Dec(43753, -7),    Dec(99996319, -8), Z0>>,
    <<Z0, Z0, Z0, One>> >>

\* mutant: the projection without its padding row
P2_Unpadded == <<
    <<Dec(719787081, -6), Z0,                 Dec(608463003, -6), Dec(449538775, -7)>>,
    <<Z0,                 Dec(719787081, -6), Dec(174545111, -6), Dec(1066855, -7)>>,
    <<Z0,                 Z0,                 One,                Dec(30106472, -10)>> >>

P2 == <<
    <<Dec(719787081, -6), Z0,                 Dec(608463003, -6), Dec(449538775, -7)>>,
    <<Z0,                 Dec(719787081, -6), Dec(174545111, -6), Dec(1066855, -7)>>,
    <<Z0,                 Z0,                 One,                Dec(30106472, -10)>>,
    <<Z0, Z0, Z0, Z0>> >>

----------------------------------------------------------------------------
(* np.linalg.inv / np.linalg.pinv.                                         *)
(* inv raises LinAlgError on a singular matrix and otherwise returns the   *)
(* inverse; pinv accepts any matrix.  Only whether the call succeeds is    *)
(* modelled: the result is the symbolic value "inverse of M".              *)
(* Singularity is decided exactly: the determinant of the integer matrix   *)
(* M * 10^k is computed modulo each of a set of primes whose product       *)
(* (> 10^55) exceeds twice Hadamard's bound on it (< 10^49 for entries     *)
(* below 1.1 * 10^12), so it is zero iff it is zero modulo every prime.    *)

Primes == {46337, 46327, 46309, 46307, 46301, 46279,
           46273, 46271, 46261, 46237, 46229, 46219}

RECURSIVE Pow10Mod(_, _)
Pow10Mod(k, p) == IF k = 0 THEN 1 ELSE (10 * Pow10Mod(k - 1, p)) % p

RECURSIVE SetMin(_)
SetMin(S) == LET x == CHOOSE x \in S : TRUE
             IN  IF S = {x} THEN x
                 ELSE LET m == SetMin(S \ {x}) IN IF x < m THEN x ELSE m

MinExp(M) == SetMin({M[i][j].e : i \in 1..Len(M), j \in 1..Len(M[1])})

\* M with every entry reduced modulo p after scaling by 10^(-MinExp(M))
ModMatrix(M, p) ==
    LET emin == MinExp(M)
    IN  [i \in 1..Len(M) |->
            [j \in 1..Len(M[i]) |->
                ((M[i][j].m % p) * Pow10Mod(M[i][j].e - emin, p)) % p]]

\* A without its first row and its j-th column
Minor(A, j) ==
    [i \in 1..(Len(A) - 1) |->
        [k \in 1..(Len(A) - 1) |-> IF k < j THEN A[i + 1][k] ELSE A[i + 1][k + 1]]]

RECURSIVE DetMod(_, _)
DetMod(A, p) ==
    IF Len(A) = 1 THEN A[1][1]
    ELSE LET term(j) == (A[1][j] * DetMod(Minor(A, j), p)) % p
             RECURSIVE sum(_)
             sum(j) == IF j = 0 THEN 0
                       ELSE (sum(j - 1)
                             + (IF j % 2 = 1 THEN term(j) ELSE (p - term(j)) % p)) % p
         IN  sum(Len(A))

IsSingular(M) == \A p \in Primes : DetMod(ModMatrix(M, p), p) = 0

\* np.linalg.inv(M): <<>> stands for LinAlgError
LinalgInv(M) == IF IsSingular(M) THEN <<>> ELSE << [inverse_of |-> M] >>

\* np.linalg.pinv(M): defined for every matrix
LinalgPinv(M) == [pseudo_inverse_of |-> M]

----------------------------------------------------------------------------
(* parse_configs, one action per section of the function. *)

Init ==
    /\ pc = "start"
    /\ argv = <<>>
    /\ configs = <<>>
    /\ ret = <<>>
    /\ folders = {}
    /\ op = "none"
    /\ src = <<>>
    /\ pt = <<>>
    /\ cells = [g \in {"front", "back"} |-> <<>>]
    /\ name = ""
    /\ id = <<>>
    /\ color = <<>>
    /\ err = ""

\* configs = edict(vars(parser.parse_args()))
StepParseArgs ==
    /\ pc = "start"
    /\ \E a \in ArgSpace :
          /\ argv' = a
          /\ configs' = a
    /\ pc' = "dirs"
    /\ UNCHANGED <<ret, folders, qvars>>

\* the directories of one run, and the checkpoint file name
DirFields(c) ==
    LET checkpoints_dir == PathJoin(PathJoin(working_dir, "checkpoints"), c.saved_fn)
        logs_dir        == PathJoin(PathJoin(working_dir, "logs"), c.saved_fn)
        results_dir     == PathJoin(working_dir, "results")
        \* configs.use_best_checkpoint = True
        use_best        == TRUE
    IN  [working_dir         |-> working_dir,
         dataset_dir         |-> PathJoin(PathJoin(working_dir, "dataset"), "kitti"),
         checkpoints_dir     |-> checkpoints_dir,
         logs_dir            |-> logs_dir,
         use_best_checkpoint |-> use_best,
         saved_weight_name   |->
             IF use_best THEN PathJoin(checkpoints_dir, BestName(c.saved_fn))
                         ELSE PathJoin(checkpoints_dir, LastName(c.saved_fn)),
         results_dir         |-> results_dir]

StepDirs ==
    /\ pc = "dirs"
    /\ configs' = DirFields(configs) @@ configs  \* new values win over the flags
    /\ folders' = folders \cup {configs'.checkpoints_dir, configs'.logs_dir,
                                configs'.results_dir}
    /\ pc' = "classes"
    /\ UNCHANGED <<argv, ret, qvars>>

StepClasses ==
    /\ pc = "classes"
    /\ configs' = configs @@ [class_list |-> class_list,
                              CLASS_NAME_TO_ID |-> CLASS_NAME_TO_ID]
    /\ pc' = "bev"
    /\ UNCHANGED <<argv, ret, folders, qvars>>

StepBev ==
    /\ pc = "bev"
    /\ configs' = configs @@ [boundary       |-> boundary,
                              boundary_back  |-> boundary_back,
                              BEV_WIDTH      |-> BEV_WIDTH,
                              BEV_HEIGHT     |-> BEV_HEIGHT,
                              DISCRETIZATION |-> DISCRETIZATION,
                              colors         |-> colors]
    /\ pc' = "calib"
    /\ UNCHANGED <<argv, ret, folders, qvars>>

StepCalib ==
    /\ pc = "calib"
    /\ configs' = configs @@ [Tr_velo_to_cam |-> Tr_velo_to_cam,
                              R0 |-> R0,
                              P2 |-> P2]
    /\ pc' = "inverses"
    /\ UNCHANGED <<argv, ret, folders, qvars>>

\* R0_inv, Tr_velo_to_cam_inv, P2_inv in this order; a LinAlgError leaves
\* parse_configs at the failing line and nothing is returned.
StepInverses ==
    /\ pc = "inverses"
    /\ LET r == LinalgInv(configs.R0)
           t == LinalgInv(configs.Tr_velo_to_cam)
       IN  IF r = <<>>
           THEN /\ pc' = "raised"
                /\ configs' = configs
           ELSE IF t = <<>>
           THEN /\ pc' = "raised"
                /\ configs' = configs @@ [R0_inv |-> r[1]]
           ELSE /\ pc' = "return"
                /\ configs' = configs @@ [R0_inv |-> r[1],
                                          Tr_velo_to_cam_inv |-> t[1],
                                          P2_inv |-> LinalgPinv(configs.P2)]
    /\ UNCHANGED <<argv, ret, folders, qvars>>

\* mutant: the return statement placed before the inversions as well
StepReturn_BeforeInverses ==
    /\ pc \in {"inverses", "return"}
    /\ ret' = <<configs>>
    /\ pc' = "ready"
    /\ UNCHANGED <<argv, configs, folders, qvars>>

\* return configs
StepReturn ==
    /\ pc = "return"
    /\ ret' = <<configs>>
    /\ pc' = "ready"
    /\ UNCHANGED <<argv, configs, folders, qvars>>

----------------------------------------------------------------------------
(* BEVGridSpec: the two grid instances read from the configuration. *)

Grids == {"front", "back"}

\* the instance for one side: its own boundary, the shared size and resolution
BEVGridSpec(c, g) ==
    [boundary       |-> IF g = "front" THEN c.boundary ELSE c.boundary_back,
     width          |-> c.BEV_WIDTH,
     height         |-> c.BEV_HEIGHT,
     discretization |-> c.DISCRETIZATION]

\* the boundary pre-check: all three coordinates within the closed ranges
InBoundary(b, p) ==
    /\ RLe(b.minX, p.x) /\ RLe(p.x, b.maxX)
    /\ RLe(b.minY, p.y) /\ RLe(p.y, b.maxY)
    /\ RLe(b.minZ, p.z) /\ RLe(p.z, b.maxZ)

\* mutant: out-of-range points are clamped into the grid instead of refused
toCell_Clamped(G, p) ==
    LET row == RFloor(RDiv(RSub(G.boundary.maxX, p.x), G.discretization))
        col == RFloor(RDiv(RSub(p.y, G.boundary.minY), G.discretization))
        clamp(v, hi) == IF v < 0 THEN 0 ELSE IF v > hi THEN hi ELSE v
    IN  << clamp(row, G.height - 1), clamp(col, G.width - 1) >>

\* toCell(p): None (<<>>) outside the boundary, otherwise <<row, col>> with
\* row = floor((maxX - p.x) / discretization),
\* col = floor((p.y - minY) / discretization)
toCell(G, p) ==
    IF ~InBoundary(G.boundary, p) THEN <<>>
    ELSE << RFloor(RDiv(RSub(G.boundary.maxX, p.x), G.discretization)),
            RFloor(RDiv(RSub(p.y, G.boundary.minY), G.discretization)) >>

\* cellCenter(row, col): the continuous coordinate of the cell's centre,
\* with the caller-supplied z
cellCenter(G, row, col, z) ==
    [x |-> RSub(G.boundary.maxX, RMul(Rat(2 * row + 1, 2), G.discretization)),
     y |-> RAdd(G.boundary.minY, RMul(Rat(2 * col + 1, 2), G.discretization)),
     z |-> z]

----------------------------------------------------------------------------
(* ClassRegistry. *)

\* idForName(name): alias lookup, None (<<>>) for an unknown name
idForName(c, n) ==
    IF n \in DOMAIN c.CLASS_NAME_TO_ID THEN << c.CLASS_NAME_TO_ID[n] >> ELSE <<>>

\* colorForId(id): indexed lookup, <<>> stands for IndexOutOfRange
colorForId(c, i) ==
    IF 0 <= i /\ i < Len(c.colors) THEN << c.colors[i + 1] >> ELSE <<>>

----------------------------------------------------------------------------
(* Inputs the downstream callers present. *)

\* how many half-cells (x, y) and hundredths (z) around each boundary edge
\* the sampled points extend, on both sides of the edge
Margin == 2

Window(e) == (e - Margin)..(e + Margin)

\* x = i half-cells: the edges of both grids, and one interior point of each
XSamples(c) ==
    LET h == c.BEV_HEIGHT
    IN  {RMul(Rat(i, 2), c.DISCRETIZATION) :
            i \in Window(-2 * h) \cup {-h} \cup Window(0) \cup {h} \cup Window(2 * h)}

\* y = j half-cells: both edges and the middle
YSamples(c) ==
    LET w == c.BEV_WIDTH
    IN  {RMul(Rat(j, 2), c.DISCRETIZATION) : j \in Window(-w) \cup {0} \cup Window(w)}

\* z within Margin hundredths of either z limit
ZSamples(c) ==
    {RAdd(c.boundary.minZ, Rat(k, 100)) : k \in Window(0)}
        \cup {RAdd(c.boundary.maxZ, Rat(k, 100)) : k \in Window(0)}

\* the cells of the two diagonals of an h x w grid: every row and every
\* column occurs among them
DiagonalCells(h, w) ==
    {<<r, r % w>> : r \in 0..(h - 1)} \cup {<<r, (w - 1 - r) % w>> : r \in 0..(h - 1)}
        \cup {<<c % h, c>> : c \in 0..(w - 1)}
        \cup {<<(h - 1 - c) % h, c>> : c \in 0..(w - 1)}

\* class names looked up: the five registered ones and three that are not
Names == {"Car", "Pedestrian", "Cyclist", "Van", "Person_sitting",
          "Truck", "Tram", "DontCare"}

InverseFields == {"R0_inv", "Tr_velo_to_cam_inv", "P2_inv"}

NoCells == [g \in Grids |-> <<>>]

----------------------------------------------------------------------------
(* Downstream queries against the returned configuration, one at a time. *)

Idle == pc = "ready" /\ op = "none"

\* rasterisation of one point: each instance's toCell is asked
ToCellOp ==
    /\ Idle
    /\ \E x \in XSamples(ret[1]), y \in YSamples(ret[1]), z \in ZSamples(ret[1]) :
          LET p == [x |-> x, y |-> y, z |-> z]
          IN  /\ pt' = <<p>>
              /\ cells' = [g \in Grids |-> toCell(BEVGridSpec(ret[1], g), p)]
    /\ op' = "toCell"
    /\ src' = <<>>
    /\ UNCHANGED <<pc, argv, configs, ret, folders, name, id, color, err>>

\* cellCenter of a cell of one instance, with z at either z limit
CellCenterOp ==
    /\ Idle
    /\ \E g \in Grids :
          LET G == BEVGridSpec(ret[1], g)
          IN  \E rc \in DiagonalCells(G.height, G.width),
                 z \in {G.boundary.minZ, G.boundary.maxZ} :
                 /\ src' = << [grid |-> g, row |-> rc[1], col |-> rc[2]] >>
                 /\ pt' = << cellCenter(G, rc[1], rc[2], z) >>
    /\ op' = "cellCenter"
    /\ cells' = NoCells
    /\ UNCHANGED <<pc, argv, configs, ret, folders, name, id, color, err>>

\* the centre just computed is rasterised again
ToCellOfCenter ==
    /\ pc = "ready"
    /\ op = "cellCenter"
    /\ cells' = [g \in Grids |-> toCell(BEVGridSpec(ret[1], g), pt[1])]
    /\ op' = "toCell"
    /\ UNCHANGED <<pc, argv, configs, ret, folders, src, pt, name, id, color, err>>

IdForNameOp ==
    /\ Idle
    /\ \E n \in Names :
          /\ name' = n
          /\ id' = idForName(ret[1], n)
    /\ op' = "idForName"
    /\ UNCHANGED <<pc, argv, configs, ret, folders, src, pt, cells, color, err>>

\* the colour of an ID that idForName produced
ColorForIdOp ==
    /\ pc = "ready"
    /\ op = "idForName"
    /\ id # <<>>
    /\ LET col == colorForId(ret[1], id[1])
       IN  /\ color' = col
           /\ err' = IF col = <<>> THEN "IndexOutOfRange" ELSE "ok"
    /\ op' = "colorForId"
    /\ UNCHANGED <<pc, argv, configs, ret, folders, src, pt, cells, name, id>>

\* a later read of one of the derived inverses
ReadInverseOp ==
    /\ Idle
    /\ \E f \in InverseFields :
          /\ name' = f
          /\ err' = IF f \in DOMAIN ret[1] THEN "ok" ELSE "AttributeError"
    /\ op' = "read"
    /\ UNCHANGED <<pc, argv, configs, ret, folders, src, pt, cells, id, color>>

\* the query is over; the caller is idle again
Finish ==
    /\ pc = "ready"
    /\ op # "none"
    /\ op' = "none"
    /\ src' = <<>>
    /\ pt' = <<>>
    /\ cells' = NoCells
    /\ name' = ""
    /\ id' = <<>>
    /\ color' = <<>>
    /\ err' = ""
    /\ UNCHANGED <<pc, argv, configs, ret, folders>>

Next ==
    \/ StepParseArgs
    \/ StepDirs
    \/ StepClasses
    \/ StepBev
    \/ StepCalib
    \/ StepInverses
    \/ StepReturn
    \/ ToCellOp
    \/ CellCenterOp
    \/ ToCellOfCenter
    \/ IdForNameOp
    \/ ColorForIdOp
    \/ ReadInverseOp
    \/ Finish

Spec == Init /\ [][Next]_vars

----------------------------------------------------------------------------
(* Properties. *)

Returned == ret # <<>>

Front == BEVGridSpec(ret[1], "front")

Back == BEVGridSpec(ret[1], "back")

\* C1: for each of the two grids and every cell (row, col) inside it,
\* toCell(cellCenter(row, col)) is (row, col) again.
C1_RoundTrip ==
    (op = "toCell" /\ src # <<>>) =>
        cells[src[1].grid] = <<src[1].row, src[1].col>>

\* the last row and first column of the back grid came back unchanged
C1_Witness ==
    /\ op = "toCell"
    /\ src = << [grid |-> "back", row |-> BEV_HEIGHT - 1, col |-> 0] >>
    /\ cells["back"] = <<BEV_HEIGHT - 1, 0>>

C3_Exclusion ==
    op = "toCell" =>
        \A g \in Grids :
            LET b == BEVGridSpec(ret[1], g).boundary
                p == pt[1]
            IN  (\/ RLt(p.x, b.minX) \/ RLt(b.maxX, p.x)
                 \/ RLt(p.y, b.minY) \/ RLt(b.maxY, p.y)
                 \/ RLt(p.z, b.minZ) \/ RLt(b.maxZ, p.z)) => cells[g] = <<>>

\* the front grid refused a point that is inside in x and y and just above maxZ
C3_Witness ==
    /\ op = "toCell"
    /\ RLt(Front.boundary.minX, pt[1].x) /\ RLt(pt[1].x, Front.boundary.maxX)
    /\ RLt(Front.boundary.minY, pt[1].y) /\ RLt(pt[1].y, Front.boundary.maxY)
    /\ RLt(Front.boundary.maxZ, pt[1].z)
    /\ cells["front"] = <<>>

\* C4: DISCRETIZATION is (maxX - minX) / BEV_HEIGHT of the front boundary,
\* and the back boundary yields the same value, so the one DISCRETIZATION
\* serves both grids.
C4_Discretization ==
    Returned =>
        LET c == ret[1]
        IN  /\ REq(c.DISCRETIZATION,
                   RDiv(RSub(c.boundary.maxX, c.boundary.minX), RInt(c.BEV_HEIGHT)))
            /\ REq(c.DISCRETIZATION,
                   RDiv(RSub(c.boundary_back.maxX, c.boundary_back.minX),
                        RInt(c.BEV_HEIGHT)))
            /\ Front.discretization = Back.discretization
            /\ Front.width = Back.width /\ Front.height = Back.height

\* the returned configuration holds 50 / 608
C4_Witness ==
    /\ pc = "ready"
    /\ Returned
    /\ REq(ret[1].DISCRETIZATION, Rat(50, 608))

\* C5 as stated: no X lies in both X-ranges, and every point inside the union
\* of the two boundaries is accepted by exactly one instance.
C5_Original ==
    /\ Returned =>
          \/ RLt(ret[1].boundary_back.maxX, ret[1].boundary.minX)
          \/ RLt(ret[1].boundary.maxX, ret[1].boundary_back.minX)
    /\ op = "toCell" => ~(cells["front"] # <<>> /\ cells["back"] # <<>>)

\* C5 amended: the two X-ranges meet in exactly one coordinate, X = 0
\* (boundary_back.maxX = boundary.minX); a point inside the union of the two
\* boundaries is accepted by both instances when its x is that coordinate and
\* by exactly one instance otherwise.
C5_Amended ==
    /\ Returned =>
          /\ REq(ret[1].boundary_back.maxX, ret[1].boundary.minX)
          /\ REq(ret[1].boundary.minX, RInt(0))
    /\ op = "toCell" =>
          ((cells["front"] # <<>> /\ cells["back"] # <<>>)
              <=> /\ (cells["front"] # <<>> \/ cells["back"] # <<>>)
                  /\ REq(pt[1].x, ret[1].boundary.minX))

\* a point with x = 0 was accepted by both instances: last row edge of the
\* front grid, row 0 of the back grid
C5_Witness ==
    /\ op = "toCell"
    /\ REq(pt[1].x, RInt(0))
    /\ cells["front"] # <<>> /\ cells["front"][1] = BEV_HEIGHT
    /\ cells["back"] # <<>> /\ cells["back"][1] = 0


\* C6: in the returned configuration colors is as long as class_list, every
\* value of CLASS_NAME_TO_ID is an ID in [0, len(class_list)), and colorForId
\* never fails with IndexOutOfRange on an ID idForName produced.
C6_RegistryInRange ==
    /\ Returned =>
          /\ Len(ret[1].colors) = Len(ret[1].class_list)
          /\ \A n \in DOMAIN ret[1].CLASS_NAME_TO_ID :
                /\ 0 <= ret[1].CLASS_NAME_TO_ID[n]
                /\ ret[1].CLASS_NAME_TO_ID[n] < Len(ret[1].class_list)
    /\ op = "colorForId" => (err = "ok" /\ color # <<>>)

\* the colour of the highest ID, reached through idForName, was looked up
C6_Witness ==
    /\ op = "colorForId"
    /\ name = "Cyclist"
    /\ id = <<2>>
    /\ color = << <<255, 0, 0>> >>

\* the aliases the claim names, each with the canonical class it shares an ID with
AliasOf == ("Van" :> "Car") @@ ("Person_sitting" :> "Pedestrian")

\* C7: class_list[i] resolves to ID i; 'Van' and 'Person_sitting' resolve to
\* the IDs of 'Car' and 'Pedestrian' and get their colours; a name that is
\* not in CLASS_NAME_TO_ID resolves to None.
C7_AliasConsistency ==
    op \in {"idForName", "colorForId"} =>
        LET c == ret[1]
        IN  /\ \A i \in 1..Len(c.class_list) :
                  name = c.class_list[i] => id = <<i - 1>>
            /\ \A a \in DOMAIN AliasOf :
                  name = a =>
                      \E i \in 1..Len(c.class_list) :
                          /\ c.class_list[i] = AliasOf[a]
                          /\ id = <<i - 1>>
                          /\ op = "colorForId" => color = << c.colors[i] >>
            /\ name \notin DOMAIN c.CLASS_NAME_TO_ID => id = <<>>

\* 'Van' was resolved and coloured like 'Car'
C7_Witness ==
    /\ op = "colorForId"
    /\ name = "Van"
    /\ id = <<0>>
    /\ color = << <<0, 255, 255>> >>

IsZero(d) == d.m = 0

IsOne(d) == d.m = 1 /\ d.e = 0

IsShape(M, rows, cols) == Len(M) = rows /\ \A i \in 1..Len(M) : Len(M[i]) = cols

\* last row [0, 0, 0, 1]
AffineLastRow(M) ==
    IsZero(M[4][1]) /\ IsZero(M[4][2]) /\ IsZero(M[4][3]) /\ IsOne(M[4][4])

\* last column [0, 0, 0, 1]
AffineLastCol(M) ==
    IsZero(M[1][4]) /\ IsZero(M[2][4]) /\ IsZero(M[3][4]) /\ IsOne(M[4][4])

\* C8 as stated: P2 is a 3x4 matrix of twelve values; Tr_velo_to_cam and R0
\* are 4x4 with last row [0, 0, 0, 1], R0 also with last column [0, 0, 0, 1].
C8_Original ==
    Returned =>
        /\ IsShape(ret[1].P2, 3, 4)
        /\ IsShape(ret[1].Tr_velo_to_cam, 4, 4) /\ AffineLastRow(ret[1].Tr_velo_to_cam)
        /\ IsShape(ret[1].R0, 4, 4)
        /\ AffineLastRow(ret[1].R0) /\ AffineLastCol(ret[1].R0)

\* C8 amended: P2 is held as a 4x4 matrix of sixteen values, the 3x4
\* projection followed by a fourth row [0, 0, 0, 0]; Tr_velo_to_cam and R0
\* are 4x4 with last row [0, 0, 0, 1], R0 also with last column [0, 0, 0, 1].
C8_Amended ==
    Returned =>
        /\ IsShape(ret[1].P2, 4, 4)
        /\ \A j \in 1..4 : IsZero(ret[1].P2[4][j])
        /\ \E j \in 1..4 : ~IsZero(ret[1].P2[3][j])
        /\ IsShape(ret[1].Tr_velo_to_cam, 4, 4) /\ AffineLastRow(ret[1].Tr_velo_to_cam)
        /\ IsShape(ret[1].R0, 4, 4)
        /\ AffineLastRow(ret[1].R0) /\ AffineLastCol(ret[1].R0)

\* the returned configuration holds the padded P2
C8_Witness ==
    /\ pc = "ready"
    /\ Returned
    /\ Len(ret[1].P2) = 4
    /\ ret[1].P2[4] = <<Z0, Z0, Z0, Z0>>
    /\ ret[1].P2[3][3] = One

\* C9: a configuration is returned only with R0_inv, Tr_velo_to_cam_inv and
\* P2_inv all derived; a singular R0 or Tr_velo_to_cam makes the inversion
\* fail inside parse_configs and nothing is returned; no later read of the
\* returned configuration fails.
C9_AllOrNothing ==
    /\ Returned =>
          /\ InverseFields \subseteq DOMAIN ret[1]
          /\ ret[1].R0_inv = [inverse_of |-> ret[1].R0]
          /\ ret[1].Tr_velo_to_cam_inv = [inverse_of |-> ret[1].Tr_velo_to_cam]
          /\ ret[1].P2_inv = [pseudo_inverse_of |-> ret[1].P2]
    /\ pc \in {"start", "dirs", "classes", "bev", "calib", "inverses", "return", "raised"}
          => ~Returned
    /\ (pc = "ready" /\ op = "none")
          => ~IsSingular(ret[1].R0) /\ ~IsSingular(ret[1].Tr_velo_to_cam)
    /\ op = "read" => err = "ok"

\* the inverse of Tr_velo_to_cam was read from the returned configuration
C9_Witness ==
    /\ op = "read"
    /\ name = "Tr_velo_to_cam_inv"
    /\ err = "ok"
    /\ "Tr_velo_to_cam_inv" \in DOMAIN ret[1]

\* C10: with --use_best_checkpoint the checkpoint file is
\* <checkpoints_dir>/<saved_fn>_best.pth, without it the last model,
\* <checkpoints_dir>/<saved_fn>.pth.
C10_FlagSelectsCheckpoint ==
    Returned =>
        ret[1].saved_weight_name =
            IF argv.use_best_checkpoint
            THEN PathJoin(ret[1].checkpoints_dir, BestName(argv.saved_fn))
            ELSE PathJoin(ret[1].checkpoints_dir, LastName(argv.saved_fn))

============================================================================
